---- MODULE Spec2Model ----
(***************************************************************************)
(* Model of the verification bot (src/main.rs): the whitelist store and    *)
(* its persisted log, the bounded-retry wrapper around platform calls,     *)
(* the /start, /confirm and plain-message handlers, and the delayed        *)
(* deletion of notices.  Every await point of a handler is one step of     *)
(* the process that runs it; handlers of different messages interleave.    *)
(***************************************************************************)
EXTENDS Integers, Sequences, FiniteSets, TLC

(* ---------------------------- bounds ---------------------------------- *)

\* concurrent message-handling tasks (one message each)
NumTasks == 2
\* distinct platform accounts that send messages
NumUsers == 2

(* ------------------------ program constants --------------------------- *)

\* the loop condition `attempts <= max_attempts`: one turn more
max_attempts_inclusive == 3 + 1

\* main.rs:166  let max_attempts = 3
max_attempts == 3

(* ------------------------------ data ---------------------------------- *)

Tasks == 1..NumTasks
\* the task spawned by delete_message_later for the notice of handler t
Spawned(t) == NumTasks + t
Deleters == {Spawned(t) : t \in Tasks}
Procs == Tasks \cup Deleters

Users == 1..NumUsers
\* msg.from = None
NoUser == 0
\* id of the message handled by task t, and of the notice that task sends
IncomingId(t) == t
NoticeId(t) == NumTasks + t
NoId == 0

\* teloxide::types::ChatMemberStatus
ChatMemberStatus ==
  {"Owner", "Administrator", "Member", "Restricted", "Left", "Banned"}

\* texts are sequences of characters
S_start == <<"/", "s", "t", "a", "r", "t">>
S_confirm == <<"/", "c", "o", "n", "f", "i", "r", "m">>
S_hello == <<"h", "e", "l", "l", "o">>
S_spam == <<" ", "S", "p", "a", "m", " ", "x">>

Texts == {S_start, S_confirm, S_hello, S_spam}

Whitespace == {" ", "\t", "\n"}

Upper == <<"A", "B", "M", "N", "O", "P", "S", "U", "W", "Y">>
Lower == <<"a", "b", "m", "n", "o", "p", "s", "u", "w", "y">>

\* char::to_lowercase on the alphabet of the model
LowerChar(c) ==
  IF \E i \in 1..Len(Upper) : Upper[i] = c
    THEN Lower[CHOOSE i \in 1..Len(Upper) : Upper[i] = c]
    ELSE c

\* str::to_lowercase
ToLowercase(s) == [i \in 1..Len(s) |-> LowerChar(s[i])]

RECURSIVE TrimStart(_)
TrimStart(s) ==
  IF s # <<>> /\ Head(s) \in Whitespace THEN TrimStart(Tail(s)) ELSE s

RECURSIVE TrimEnd(_)
TrimEnd(s) ==
  IF s # <<>> /\ s[Len(s)] \in Whitespace
    THEN TrimEnd(SubSeq(s, 1, Len(s) - 1))
    ELSE s

\* str::trim
Trim(s) == TrimEnd(TrimStart(s))

\* str::starts_with
StartsWith(s, p) == Len(p) <= Len(s) /\ SubSeq(s, 1, Len(p)) = p

\* str::contains
Contains(s, p) ==
  \E i \in 0..(Len(s) - Len(p)) : SubSeq(s, i + 1, i + Len(p)) = p

\* text.split('@').next(): the part before the first '@'
RECURSIVE BeforeAt(_)
BeforeAt(s) ==
  IF s = <<>> \/ Head(s) = "@" THEN <<>> ELSE <<Head(s)>> \o BeforeAt(Tail(s))

\* Command::parse (None is "None")
CommandParse(text) ==
  LET cmd_text == Trim(BeforeAt(text))
  IN  IF cmd_text = S_start THEN "Start"
      ELSE IF cmd_text = S_confirm THEN "Confirm"
      ELSE "None"

(* ------------------------- forbidden patterns ------------------------- *)

\* the lines of the forbidden-patterns file
PatternLines == << <<"s", "p", "a", "m">>, <<"*", "b", "u", "y", " ", "n", "o", "w">> >>

RECURSIVE LoadPatterns(_, _)
\* ForbiddenPatterns::load: acc is [starts_with, contains]
LoadPatterns(lines, acc) ==
  IF lines = <<>> THEN acc
  ELSE LET line == Trim(Head(lines))
       IN  IF line = <<>> THEN LoadPatterns(Tail(lines), acc)
           ELSE IF Head(line) = "*"
             THEN LoadPatterns(Tail(lines),
                    [acc EXCEPT !.contains = Append(@, ToLowercase(Trim(Tail(line))))])
             ELSE LoadPatterns(Tail(lines),
                    [acc EXCEPT !.starts_with = Append(@, ToLowercase(Trim(line)))])

\* matches that trims the text but compares it in the case it came in
matches_case_sensitive(patterns, text) ==
  LET t == Trim(text)
  IN  \/ \E i \in 1..Len(patterns.starts_with) : StartsWith(t, patterns.starts_with[i])
      \/ \E i \in 1..Len(patterns.contains) : Contains(t, patterns.contains[i])

\* ForbiddenPatterns::matches
Matches(patterns, text) ==
  LET t == ToLowercase(Trim(text))
  IN  \/ \E i \in 1..Len(patterns.starts_with) : StartsWith(t, patterns.starts_with[i])
      \/ \E i \in 1..Len(patterns.contains) : Contains(t, patterns.contains[i])

(* --------------------------- whitelist log ---------------------------- *)

\* decimal rendering of a user id ("{}" of user_id.0)
Decimal(n) == IF n = 1 THEN "1" ELSE IF n = 2 THEN "2" ELSE IF n = 3 THEN "3" ELSE "4"

\* str::parse::<u64> of a token; 0 stands for Err
ParseU64(tok) ==
  IF \E n \in 1..4 : Decimal(n) = tok
    THEN CHOOSE n \in 1..4 : Decimal(n) = tok
    ELSE 0

\* user.username.as_deref().unwrap_or(&user.first_name), as whitespace-split tokens
Username(u) == IF u = 1 THEN <<"ann">> ELSE <<"Bob", "2">>

\* writeln!(file, "{} {}", user_id.0, username): one line, as its tokens
FormatLine(user_id, username) == <<Decimal(user_id)>> \o username

\* line.split_whitespace().next().unwrap_or("")
FirstToken(line) == IF line = <<>> THEN "" ELSE Head(line)

RECURSIVE load_whitelist(_)
\* BotState::load_whitelist over the lines of the file
load_whitelist(lines) ==
  IF lines = <<>> THEN {}
  ELSE LET id == ParseU64(FirstToken(Head(lines)))
       IN  (IF id # 0 THEN {id} ELSE {}) \cup load_whitelist(Tail(lines))

\* contents of the whitelist file when the process starts (absent = empty)
BootFiles ==
  { << <<"junk">>, <<>>, <<"1", "ann">> >>,
    << <<"2", "Bob", "2">>, <<"1", "ann">>, <<"2", "Bob", "2">> >> }

(* ------------------------------ state --------------------------------- *)

VARIABLES
  whitelist,           \* BotState.whitelist: the in-memory HashSet<UserId>
  whitelist_file,      \* the lines of the file at BotState.whitelist_file
  forbidden_patterns,  \* BotState.forbidden_patterns
  lock,                \* holder of the whitelist Mutex, 0 when free
  pc,                  \* position of every task
  msg,                 \* the message a handler works on; the target of a deleter
  action_name,         \* retry_telegram_request: the call being retried
  attempts,            \* retry_telegram_request: attempts
  last_error,          \* retry_telegram_request: last_error (0 is None)
  ret,                 \* value returned by retry_telegram_request
  outcomes,            \* history: success/failure of each attempt of the call
  member,              \* handle_confirm: status of the ChatMember returned
  text,                \* the notice a handler has chosen to send
  result,              \* what the handler returned: "", "Ok" or "Err"
  sent,                \* platform: messages the bot has sent
  registered,          \* number of delete_message_later calls per message id
  known,               \* history: the sender was whitelisted on arrival
  boot_len,            \* history: lines of the file when the process started
  delete_calls,        \* platform: the (chat, message) of every delete_message call
  calls,               \* history: platform calls made by each task, when audited
  audit                \* history: whether calls are counted in this run

vars ==
  << whitelist, whitelist_file, forbidden_patterns, lock, pc, msg, action_name,
     attempts, last_error, ret, outcomes, member, text, result, sent,
     registered, known, boot_len, delete_calls, calls, audit >>

\* msg.chat.id of the message of task t: updates of one chat are handled one
\* after the other, so concurrent tasks work on messages of different chats
ChatOf(t) == -100 * t

NoMsg == [from |-> NoUser, chat |-> 0, id |-> NoId, has_text |-> FALSE, text |-> <<>>]
NoRet == [ok |-> FALSE, status |-> "", id |-> NoId, err |-> 0]

\* messages the dispatcher may hand to task t
Messages(t) ==
  { [from |-> u, chat |-> ChatOf(t), id |-> IncomingId(t), has_text |-> TRUE, text |-> x] :
      u \in Users \cup {NoUser}, x \in Texts }
  \cup
  { [from |-> u, chat |-> ChatOf(t), id |-> IncomingId(t), has_text |-> FALSE, text |-> <<>>] :
      u \in Users \cup {NoUser} }

\* msg.text().and_then(Command::parse)
CommandOf(m) == IF m.has_text THEN CommandParse(m.text) ELSE "None"

\* what a call does: delete_message, send_message or get_chat_member
Kind(name) ==
  IF name \in {"delete confirm command", "delete unwhitelisted message",
               "delete forbidden message", "delete delayed message"} THEN "delete"
  ELSE IF name = "get chat member" THEN "get"
  ELSE "send"

\* is_member letting a restricted account pass
is_member_restricted(status) ==
  status \in {"Member", "Administrator", "Owner", "Restricted"}

\* is_member
is_member(status) == status \in {"Member", "Administrator", "Owner"}

\* BotState::is_whitelisted under the lock
is_whitelisted(user_id) == user_id \in whitelist

\* check_message on the text as received, without the trim
check_message_no_trim(t) ==
  LET low == ToLowercase(t)
  IN  \/ \E i \in 1..Len(forbidden_patterns.starts_with) :
           StartsWith(low, forbidden_patterns.starts_with[i])
      \/ \E i \in 1..Len(forbidden_patterns.contains) :
           Contains(low, forbidden_patterns.contains[i])

\* BotState::check_message
check_message(t) == Matches(forbidden_patterns, t)

\* add_to_whitelist that appends without looking at what insert returned
add_to_whitelist_always_appends(set, file, user_id, username, io_ok) ==
  IF io_ok
    THEN [whitelist |-> set \cup {user_id},
          file |-> Append(file, FormatLine(user_id, username)),
          ok |-> TRUE]
    ELSE [whitelist |-> set \cup {user_id}, file |-> file, ok |-> FALSE]

\* add_to_whitelist that writes the line but leaves the set alone
add_to_whitelist_no_insert(set, file, user_id, username, io_ok) ==
  IF user_id \notin set
    THEN IF io_ok
           THEN [whitelist |-> set,
                 file |-> Append(file, FormatLine(user_id, username)),
                 ok |-> TRUE]
           ELSE [whitelist |-> set, file |-> file, ok |-> FALSE]
    ELSE [whitelist |-> set, file |-> file, ok |-> TRUE]

\* add_to_whitelist that creates the file anew instead of appending to it
add_to_whitelist_rewrites(set, file, user_id, username, io_ok) ==
  IF user_id \notin set
    THEN IF io_ok
           THEN [whitelist |-> set \cup {user_id},
                 file |-> << FormatLine(user_id, username) >>,
                 ok |-> TRUE]
           ELSE [whitelist |-> set \cup {user_id}, file |-> file, ok |-> FALSE]
    ELSE [whitelist |-> set, file |-> file, ok |-> TRUE]

\* BotState::add_to_whitelist under the lock; io_ok: open and writeln! succeed
add_to_whitelist(set, file, user_id, username, io_ok) ==
  IF user_id \notin set
    THEN IF io_ok
           THEN [whitelist |-> set \cup {user_id},
                 file |-> Append(file, FormatLine(user_id, username)),
                 ok |-> TRUE]
           ELSE [whitelist |-> set \cup {user_id}, file |-> file, ok |-> FALSE]
    ELSE [whitelist |-> set, file |-> file, ok |-> TRUE]

\* the state after BotState::new for a patterns file with the given lines, with
\* the tasks of `active` ready for a message
BootWith(active, audited, lines) ==
  /\ whitelist_file \in BootFiles
  /\ whitelist = load_whitelist(whitelist_file)
  /\ forbidden_patterns = LoadPatterns(lines, [starts_with |-> <<>>, contains |-> <<>>])
  /\ lock = 0
  /\ pc = [p \in Procs |-> IF p \in active THEN "idle"
                           ELSE IF p \in Tasks THEN "off" ELSE "unspawned"]
  /\ msg = [p \in Procs |-> NoMsg]
  /\ action_name = [p \in Procs |-> ""]
  /\ attempts = [p \in Procs |-> 0]
  /\ last_error = [p \in Procs |-> 0]
  /\ ret = [p \in Procs |-> NoRet]
  /\ outcomes = [p \in Procs |-> <<>>]
  /\ member = [p \in Procs |-> ""]
  /\ text = [p \in Procs |-> ""]
  /\ result = [p \in Procs |-> ""]
  /\ sent = {}
  /\ registered = [i \in {NoId} \cup {NoticeId(t) : t \in Tasks} |-> 0]
  /\ known = [p \in Procs |-> FALSE]
  /\ boot_len = Len(whitelist_file)
  /\ delete_calls = {}
  /\ calls = [p \in Procs |-> 0]
  /\ audit = audited

\* the state after BotState::new, with the tasks of `active` ready for a message
Boot(active, audited) == BootWith(active, audited, PatternLines)

Init == Boot(Tasks, FALSE)

\* one message and the deletion it schedules, every platform call counted
InitSolo == Boot({1}, TRUE)

store == << whitelist, whitelist_file, forbidden_patterns, boot_len >>
retry == << action_name, attempts, last_error, ret, outcomes >>
platform == << sent, registered, delete_calls, calls, audit >>

\* the attempt of task p reaches the platform
Attempted(p) ==
  /\ delete_calls' = IF Kind(action_name[p]) = "delete"
                       THEN delete_calls \cup {[chat |-> msg[p].chat, id |-> msg[p].id]}
                       ELSE delete_calls
  /\ calls' = IF audit THEN [calls EXCEPT ![p] = @ + 1] ELSE calls
  /\ audit' = audit

(* ------------------------ retry_telegram_request ---------------------- *)

\* entry of retry_telegram_request(action, name)
Call(p, name) ==
  /\ pc' = [pc EXCEPT ![p] = "retry"]
  /\ action_name' = [action_name EXCEPT ![p] = name]
  /\ attempts' = [attempts EXCEPT ![p] = 0]
  /\ last_error' = [last_error EXCEPT ![p] = 0]
  /\ ret' = [ret EXCEPT ![p] = NoRet]
  /\ outcomes' = [outcomes EXCEPT ![p] = <<>>]

\* the handler returns r
Return(p, r) ==
  /\ pc' = [pc EXCEPT ![p] = "done"]
  /\ result' = [result EXCEPT ![p] = r]
  /\ action_name' = [action_name EXCEPT ![p] = ""]
  /\ attempts' = [attempts EXCEPT ![p] = 0]
  /\ last_error' = [last_error EXCEPT ![p] = 0]
  /\ ret' = [ret EXCEPT ![p] = NoRet]
  /\ outcomes' = [outcomes EXCEPT ![p] = <<>>]

\* an Err arm that keeps the first error
ErrArmKeepsFirst(old, attempt) == IF old = 0 THEN attempt ELSE old

\* Err(e) arm: last_error = Some(e); e is named by the attempt that raised it
ErrArm(old, attempt) == attempt

\* what the platform answers to a successful call
Answers(p) ==
  IF Kind(action_name[p]) = "get"
    THEN {[ok |-> TRUE, status |-> s, id |-> NoId, err |-> 0] : s \in ChatMemberStatus}
  ELSE IF Kind(action_name[p]) = "send"
    THEN {[ok |-> TRUE, status |-> "", id |-> NoticeId(p), err |-> 0]}
  ELSE {[ok |-> TRUE, status |-> "", id |-> NoId, err |-> 0]}

\* one turn of the loop: attempts += 1; action().await succeeds
RetryAttemptOk(p) ==
  /\ pc[p] = "retry"
  /\ attempts[p] < max_attempts
  /\ attempts' = [attempts EXCEPT ![p] = @ + 1]
  /\ outcomes' = [outcomes EXCEPT ![p] = Append(@, TRUE)]
  /\ \E a \in Answers(p) : ret' = [ret EXCEPT ![p] = a]
  /\ pc' = [pc EXCEPT ![p] = "returned"]
  /\ sent' = IF Kind(action_name[p]) = "send"
               THEN sent \cup {[chat |-> msg[p].chat, id |-> NoticeId(p), text |-> text[p]]}
               ELSE sent
  /\ Attempted(p)
  /\ UNCHANGED << store, lock, msg, action_name, last_error, member, text, result,
                  registered, known >>

\* one turn of the loop: attempts += 1; action().await fails; the sleep begins
RetryAttemptErr(p) ==
  /\ pc[p] = "retry"
  /\ attempts[p] < max_attempts
  /\ attempts' = [attempts EXCEPT ![p] = @ + 1]
  /\ outcomes' = [outcomes EXCEPT ![p] = Append(@, FALSE)]
  /\ last_error' = [last_error EXCEPT ![p] = ErrArm(@, attempts[p] + 1)]
  /\ pc' = [pc EXCEPT ![p] = "sleep"]
  /\ Attempted(p)
  /\ UNCHANGED << store, lock, msg, action_name, ret, member, text, result,
                  sent, registered, known >>

\* the sleep ends; the loop condition decides between another turn and Err(last_error)
RetryWake(p) ==
  /\ pc[p] = "sleep"
  /\ IF attempts[p] < max_attempts
       THEN /\ pc' = [pc EXCEPT ![p] = "retry"]
            /\ ret' = ret
       ELSE /\ pc' = [pc EXCEPT ![p] = "returned"]
            /\ ret' = [ret EXCEPT ![p] = [NoRet EXCEPT !.err = last_error[p]]]
  /\ UNCHANGED << store, lock, msg, action_name, attempts, last_error, outcomes,
                  member, text, result, platform, known >>

(* ----------------------------- dispatcher ------------------------------ *)

\* main: the command branch goes to handle_start / handle_confirm, every other
\* message to handle_group_message
Receive(t) ==
  /\ pc[t] = "idle"
  /\ \E m \in Messages(t) :
       /\ msg' = [msg EXCEPT ![t] = m]
       /\ known' = [known EXCEPT ![t] = m.from \in whitelist]
       /\ pc' = [pc EXCEPT ![t] =
                   IF CommandOf(m) = "Start" THEN "handle_start"
                   ELSE IF CommandOf(m) = "Confirm" THEN "handle_confirm"
                   ELSE "handle_group_message"]
  /\ UNCHANGED << store, lock, retry, member, text, result, platform >>

\* the handler that runs the message of task t
Handler(t) ==
  IF CommandOf(msg[t]) = "Start" THEN "start"
  ELSE IF CommandOf(msg[t]) = "Confirm" THEN "confirm"
  ELSE "group"

(* ------------------------ whitelist lock ------------------------------ *)

\* self.whitelist.lock().await in is_whitelisted
IsWhitelistedLock(t) ==
  /\ pc[t] = "is_whitelisted"
  /\ lock = 0
  /\ lock' = t
  /\ pc' = [pc EXCEPT ![t] = "is_whitelisted_locked"]
  /\ UNCHANGED << store, msg, retry, member, text, result, platform, known >>

\* self.whitelist.lock().await in add_to_whitelist
AddToWhitelistLock(t) ==
  /\ pc[t] = "add_to_whitelist"
  /\ lock = 0
  /\ lock' = t
  /\ pc' = [pc EXCEPT ![t] = "add_to_whitelist_locked"]
  /\ UNCHANGED << store, msg, retry, member, text, result, platform, known >>

(* --------------------------- delete_message_later ---------------------- *)

\* delete_message_later that schedules the message of the handler, not the notice
delete_message_later_incoming(t, chat_id, message_id) ==
  /\ registered' = [registered EXCEPT ![message_id] = @ + 1]
  /\ msg' = [msg EXCEPT ![Spawned(t)] = [NoMsg EXCEPT !.chat = chat_id, !.id = msg[t].id]]
  /\ pc' = [pc EXCEPT ![t] = "done", ![Spawned(t)] = "sleep30"]

\* delete_message_later(bot, chat_id, message_id) called by handler t
delete_message_later(t, chat_id, message_id) ==
  /\ registered' = [registered EXCEPT ![message_id] = @ + 1]
  /\ msg' = [msg EXCEPT ![Spawned(t)] = [NoMsg EXCEPT !.chat = chat_id, !.id = message_id]]
  /\ pc' = [pc EXCEPT ![t] = "done", ![Spawned(t)] = "sleep30"]

\* AfterSend without the `?`: the deletion is scheduled whatever the send returned
AfterSendIgnoresErr(t) ==
  /\ pc[t] = "returned"
  /\ Kind(action_name[t]) = "send"
  /\ delete_message_later(t, msg[t].chat, ret[t].id)
  /\ result' = [result EXCEPT ![t] = "Ok"]
  /\ action_name' = [action_name EXCEPT ![t] = ""]
  /\ attempts' = [attempts EXCEPT ![t] = 0]
  /\ last_error' = [last_error EXCEPT ![t] = 0]
  /\ ret' = [ret EXCEPT ![t] = NoRet]
  /\ outcomes' = [outcomes EXCEPT ![t] = <<>>]
  /\ UNCHANGED << store, lock, member, text, sent, known, delete_calls, calls, audit >>

\* `let response = retry_telegram_request(..).await?; delete_message_later(..,
\* response.id); Ok(())`: what every handler does with a notice
AfterSend(t) ==
  /\ pc[t] = "returned"
  /\ Kind(action_name[t]) = "send"
  /\ IF ret[t].ok
       THEN /\ delete_message_later(t, msg[t].chat, ret[t].id)
            /\ result' = [result EXCEPT ![t] = "Ok"]
       ELSE /\ pc' = [pc EXCEPT ![t] = "done"]
            /\ result' = [result EXCEPT ![t] = "Err"]
            /\ UNCHANGED << msg, registered >>
  /\ action_name' = [action_name EXCEPT ![t] = ""]
  /\ attempts' = [attempts EXCEPT ![t] = 0]
  /\ last_error' = [last_error EXCEPT ![t] = 0]
  /\ ret' = [ret EXCEPT ![t] = NoRet]
  /\ outcomes' = [outcomes EXCEPT ![t] = <<>>]
  /\ UNCHANGED << store, lock, member, text, sent, known, delete_calls, calls, audit >>

\* the spawned task: tokio::time::sleep(30 s) ends, the delete is retried
DeleterWake(d) ==
  /\ d \in Deleters
  /\ pc[d] = "sleep30"
  /\ Call(d, "delete delayed message")
  /\ UNCHANGED << store, lock, msg, member, text, result, platform, known >>

\* the spawned task ends; an Err is logged and dropped
DeleterEnd(d) ==
  /\ d \in Deleters
  /\ pc[d] = "returned"
  /\ Return(d, IF ret[d].ok THEN "Ok" ELSE "Err")
  /\ UNCHANGED << store, lock, msg, member, text, platform, known >>

(* ------------------------------ handle_start --------------------------- *)

HandleStart(t) ==
  /\ pc[t] = "handle_start"
  /\ IF msg[t].from = NoUser
       THEN Return(t, "Ok")
       ELSE /\ pc' = [pc EXCEPT ![t] = "is_whitelisted"]
            /\ UNCHANGED << retry, result >>
  /\ UNCHANGED << store, lock, msg, member, text, platform, known >>

\* is_whitelisted whose guard lives on into the send of the answer
StartAfterCheckKeepsLock(t) ==
  /\ pc[t] = "is_whitelisted_locked"
  /\ Handler(t) = "start"
  /\ lock' = lock
  /\ text' = [text EXCEPT ![t] =
                IF is_whitelisted(msg[t].from) THEN "start: already verified"
                ELSE "start: instructions"]
  /\ Call(t, "send start response")
  /\ UNCHANGED << store, msg, member, result, platform, known >>

StartAfterCheck(t) ==
  /\ pc[t] = "is_whitelisted_locked"
  /\ Handler(t) = "start"
  /\ lock' = 0
  /\ text' = [text EXCEPT ![t] =
                IF is_whitelisted(msg[t].from) THEN "start: already verified"
                ELSE "start: instructions"]
  /\ Call(t, "send start response")
  /\ UNCHANGED << store, msg, member, result, platform, known >>

StartAfterSend(t) ==
  /\ Handler(t) = "start"
  /\ AfterSend(t)

(* ----------------------------- handle_confirm -------------------------- *)

\* handle_confirm that deletes the command before it looks at msg.from
HandleConfirmDeletesFirst(t) ==
  /\ pc[t] = "handle_confirm"
  /\ Call(t, "delete confirm command")
  /\ UNCHANGED << store, lock, msg, member, text, result, platform, known >>

HandleConfirm(t) ==
  /\ pc[t] = "handle_confirm"
  /\ IF msg[t].from = NoUser
       THEN Return(t, "Ok")
       ELSE /\ Call(t, "delete confirm command")
            /\ UNCHANGED result
  /\ UNCHANGED << store, lock, msg, member, text, platform, known >>

\* `.await?` on the delete of the command
ConfirmDeleteResult(r) == IF r.ok THEN "continue" ELSE "return Err"

ConfirmAfterDelete(t) ==
  /\ pc[t] = "returned"
  /\ action_name[t] = "delete confirm command"
  /\ IF ConfirmDeleteResult(ret[t]) = "continue"
       THEN /\ pc' = [pc EXCEPT ![t] = "is_whitelisted"]
            /\ action_name' = [action_name EXCEPT ![t] = ""]
            /\ attempts' = [attempts EXCEPT ![t] = 0]
            /\ last_error' = [last_error EXCEPT ![t] = 0]
            /\ ret' = [ret EXCEPT ![t] = NoRet]
            /\ outcomes' = [outcomes EXCEPT ![t] = <<>>]
            /\ UNCHANGED result
       ELSE Return(t, "Err")
  /\ UNCHANGED << store, lock, msg, member, text, platform, known >>

ConfirmAfterCheck(t) ==
  /\ pc[t] = "is_whitelisted_locked"
  /\ Handler(t) = "confirm"
  /\ lock' = 0
  /\ IF is_whitelisted(msg[t].from)
       THEN /\ text' = [text EXCEPT ![t] = "already verified"]
            /\ Call(t, "send already confirmed message")
       ELSE /\ text' = text
            /\ Call(t, "get chat member")
  /\ UNCHANGED << store, msg, member, result, platform, known >>

\* the match with `?` on the query: a failed query ends the handler, no notice
ConfirmAfterQueryPropagates(t) ==
  /\ pc[t] = "returned"
  /\ action_name[t] = "get chat member"
  /\ IF ret[t].ok /\ is_member(ret[t].status)
       THEN /\ member' = [member EXCEPT ![t] = ret[t].status]
            /\ pc' = [pc EXCEPT ![t] = "add_to_whitelist"]
            /\ action_name' = [action_name EXCEPT ![t] = ""]
            /\ attempts' = [attempts EXCEPT ![t] = 0]
            /\ last_error' = [last_error EXCEPT ![t] = 0]
            /\ ret' = [ret EXCEPT ![t] = NoRet]
            /\ outcomes' = [outcomes EXCEPT ![t] = <<>>]
            /\ UNCHANGED << text, result >>
       ELSE IF ret[t].ok
         THEN /\ member' = member
              /\ text' = [text EXCEPT ![t] = "must be a group member"]
              /\ Call(t, "send not member message")
              /\ UNCHANGED result
         ELSE /\ Return(t, "Err")
              /\ UNCHANGED << member, text >>
  /\ UNCHANGED << store, lock, msg, platform, known >>

\* the match on the result of get_chat_member
ConfirmAfterQuery(t) ==
  /\ pc[t] = "returned"
  /\ action_name[t] = "get chat member"
  /\ IF ret[t].ok /\ is_member(ret[t].status)
       THEN /\ member' = [member EXCEPT ![t] = ret[t].status]
            /\ pc' = [pc EXCEPT ![t] = "add_to_whitelist"]
            /\ action_name' = [action_name EXCEPT ![t] = ""]
            /\ attempts' = [attempts EXCEPT ![t] = 0]
            /\ last_error' = [last_error EXCEPT ![t] = 0]
            /\ ret' = [ret EXCEPT ![t] = NoRet]
            /\ outcomes' = [outcomes EXCEPT ![t] = <<>>]
            /\ text' = text
       ELSE IF ret[t].ok
         THEN /\ member' = member
              /\ text' = [text EXCEPT ![t] = "must be a group member"]
              /\ Call(t, "send not member message")
         ELSE /\ member' = member
              /\ text' = [text EXCEPT ![t] = "membership check failed"]
              /\ Call(t, "send membership check error")
  /\ UNCHANGED << store, lock, msg, result, platform, known >>

\* a confirmation text that takes an administrator for a plain member
ConfirmTextAdminAsMember(status) ==
  IF status \in {"Member", "Administrator"} THEN "verified" ELSE "admin verified"

\* the text of the confirmation
ConfirmText(status) == IF status = "Member" THEN "verified" ELSE "admin verified"

\* add_to_whitelist under the lock, then the notice that follows its result
ConfirmAdd(t) ==
  /\ pc[t] = "add_to_whitelist_locked"
  /\ \E io_ok \in BOOLEAN :
       LET r == add_to_whitelist(whitelist, whitelist_file, msg[t].from,
                                 Username(msg[t].from), io_ok)
       IN  /\ whitelist' = r.whitelist
           /\ whitelist_file' = r.file
           /\ IF r.ok
                THEN /\ text' = [text EXCEPT ![t] = ConfirmText(member[t])]
                     /\ Call(t, "send confirmation message")
                ELSE /\ text' = [text EXCEPT ![t] = "whitelist error"]
                     /\ Call(t, "send whitelist error")
           /\ member' = IF r.ok THEN member ELSE [member EXCEPT ![t] = ""]
  /\ lock' = 0
  /\ UNCHANGED << forbidden_patterns, boot_len, msg, result, platform, known >>


ConfirmAfterSend(t) ==
  /\ Handler(t) = "confirm"
  /\ AfterSend(t)

(* -------------------------- handle_group_message ----------------------- *)

HandleGroupMessage(t) ==
  /\ pc[t] = "handle_group_message"
  /\ IF msg[t].from = NoUser
       THEN Return(t, "Ok")
       ELSE /\ pc' = [pc EXCEPT ![t] =
                        IF CommandOf(msg[t]) = "Start" THEN "handle_start"
                        ELSE IF CommandOf(msg[t]) = "Confirm" THEN "handle_confirm"
                        ELSE "is_whitelisted"]
            /\ UNCHANGED << retry, result >>
  /\ UNCHANGED << store, lock, msg, member, text, platform, known >>

GroupAfterCheck(t) ==
  /\ pc[t] = "is_whitelisted_locked"
  /\ Handler(t) = "group"
  /\ lock' = 0
  /\ IF ~ is_whitelisted(msg[t].from)
       THEN /\ Call(t, "delete unwhitelisted message")
            /\ UNCHANGED result
       ELSE IF msg[t].has_text
         THEN /\ pc' = [pc EXCEPT ![t] = "check_message"]
              /\ UNCHANGED << retry, result >>
         ELSE Return(t, "Ok")
  /\ UNCHANGED << store, msg, member, text, platform, known >>

\* state.check_message(text).await
GroupCheckMessage(t) ==
  /\ pc[t] = "check_message"
  /\ IF check_message(msg[t].text)
       THEN /\ Call(t, "delete forbidden message")
            /\ UNCHANGED result
       ELSE Return(t, "Ok")
  /\ UNCHANGED << store, lock, msg, member, text, platform, known >>

\* the delete with `?`: a failed delete ends the handler
GroupAfterDeleteAborts(t) ==
  /\ pc[t] = "returned"
  /\ action_name[t] \in {"delete unwhitelisted message", "delete forbidden message"}
  /\ IF ~ ret[t].ok
       THEN /\ Return(t, "Err")
            /\ text' = text
       ELSE IF action_name[t] = "delete forbidden message"
         THEN /\ text' = [text EXCEPT ![t] = "violates rules"]
              /\ Call(t, "send forbidden pattern warning")
              /\ UNCHANGED result
         ELSE IF msg[t].has_text
           THEN /\ text' = [text EXCEPT ![t] = "please confirm"]
                /\ Call(t, "send unwhitelisted warning")
                /\ UNCHANGED result
           ELSE /\ Return(t, "Ok")
                /\ text' = text
  /\ UNCHANGED << store, lock, msg, member, platform, known >>

\* `if let Err(e) = retry_telegram_request(delete ..)`: the error is only logged
GroupAfterDelete(t) ==
  /\ pc[t] = "returned"
  /\ action_name[t] \in {"delete unwhitelisted message", "delete forbidden message"}
  /\ IF action_name[t] = "delete forbidden message"
       THEN /\ text' = [text EXCEPT ![t] = "violates rules"]
            /\ Call(t, "send forbidden pattern warning")
            /\ UNCHANGED result
       ELSE IF msg[t].has_text
         THEN /\ text' = [text EXCEPT ![t] = "please confirm"]
              /\ Call(t, "send unwhitelisted warning")
              /\ UNCHANGED result
         ELSE /\ Return(t, "Ok")
              /\ text' = text
  /\ UNCHANGED << store, lock, msg, member, platform, known >>

GroupAfterSend(t) ==
  /\ Handler(t) = "group"
  /\ AfterSend(t)

(* ------------------------------ the system ----------------------------- *)

Next ==
  \/ \E t \in Tasks : Receive(t)
  \/ \E p \in Procs : RetryAttemptOk(p)
  \/ \E p \in Procs : RetryAttemptErr(p)
  \/ \E p \in Procs : RetryWake(p)
  \/ \E t \in Tasks : IsWhitelistedLock(t)
  \/ \E t \in Tasks : AddToWhitelistLock(t)
  \/ \E t \in Tasks : HandleStart(t)
  \/ \E t \in Tasks : StartAfterCheck(t)
  \/ \E t \in Tasks : StartAfterSend(t)
  \/ \E t \in Tasks : HandleConfirm(t)
  \/ \E t \in Tasks : ConfirmAfterDelete(t)
  \/ \E t \in Tasks : ConfirmAfterCheck(t)
  \/ \E t \in Tasks : ConfirmAfterQuery(t)
  \/ \E t \in Tasks : ConfirmAdd(t)
  \/ \E t \in Tasks : ConfirmAfterSend(t)
  \/ \E t \in Tasks : HandleGroupMessage(t)
  \/ \E t \in Tasks : GroupAfterCheck(t)
  \/ \E t \in Tasks : GroupCheckMessage(t)
  \/ \E t \in Tasks : GroupAfterDelete(t)
  \/ \E t \in Tasks : GroupAfterSend(t)
  \/ \E d \in Deleters : DeleterWake(d)
  \/ \E d \in Deleters : DeleterEnd(d)

Spec == Init /\ [][Next]_vars

\* every step task p can take
Step(p) ==
  \/ Receive(p) \/ RetryAttemptOk(p) \/ RetryAttemptErr(p) \/ RetryWake(p)
  \/ HandleStart(p) \/ StartAfterCheck(p) \/ StartAfterSend(p)
  \/ HandleConfirm(p) \/ ConfirmAfterDelete(p) \/ ConfirmAfterCheck(p)
  \/ ConfirmAfterQuery(p) \/ ConfirmAdd(p) \/ ConfirmAfterSend(p)
  \/ HandleGroupMessage(p) \/ GroupAfterCheck(p) \/ GroupCheckMessage(p)
  \/ GroupAfterDelete(p) \/ GroupAfterSend(p)
  \/ IsWhitelistedLock(p) \/ AddToWhitelistLock(p)
  \/ DeleterWake(p) \/ DeleterEnd(p)

\* the runtime keeps running every task that can run: timers fire, platform
\* calls return, and a task that waits for the Mutex gets it once it stays free
Fairness == \A p \in Procs : WF_vars(Step(p))

\* every step of a spawned deletion
DeleterStep(d) ==
  \/ DeleterWake(d) \/ RetryAttemptOk(d) \/ RetryAttemptErr(d) \/ RetryWake(d)
  \/ DeleterEnd(d)

\* the runtime keeps running the spawned deletions: the 30 s timer fires, the
\* platform calls return, the backoff sleeps end
DeleterFairness == \A d \in Deleters : WF_vars(DeleterStep(d))

FairSpec == Spec /\ DeleterFairness

\* a single message, with the platform calls counted
SoloSpec == InitSolo /\ [][Next]_vars

FairSoloSpec == SoloSpec /\ Fairness

(* ------------------------------ properties ----------------------------- *)

\* the lines appended to the file since the process started
Appended == SubSeq(whitelist_file, boot_len + 1, Len(whitelist_file))

\* number of lines of f that load_whitelist reads as user u
Records(f, u) == Cardinality({i \in 1..Len(f) : ParseU64(FirstToken(f[i])) = u})

Verified == {"verified", "admin verified"}

\* no append to the file has failed
WorkingPersistence == \A t \in Tasks : text[t] # "whitelist error"

\* the notice of handler t is on the platform and its deletion is scheduled once
NoticeScheduled(t) ==
  /\ [chat |-> msg[t].chat, id |-> NoticeId(t), text |-> text[t]] \in sent
  /\ registered[NoticeId(t)] = 1
  /\ pc[Spawned(t)] # "unspawned"
  /\ msg[Spawned(t)].chat = msg[t].chat
  /\ msg[Spawned(t)].id = NoticeId(t)

\* C1: every UserId of the in-memory whitelist has a record in the persisted log,
\* in every reachable state, failed appends included.
C1_SetWithinLog == whitelist \subseteq load_whitelist(whitelist_file)

\* C2: when the append of add_to_whitelist fails for a Confirm, the sender is not
\* whitelisted afterwards (the handler goes on to the retry-later notice).
C2_FailedAppendGrantsNothing ==
  [][\A t \in Tasks :
       (pc[t] = "add_to_whitelist_locked" /\ text'[t] = "whitelist error")
         => msg[t].from \notin whitelist']_vars

\* C3: the set and the log change only in the add_to_whitelist step of a Confirm
\* whose membership query returned member, administrator or owner, and only by
\* the sender of that Confirm; every other step of every handler leaves both alone.
C3_OnlyEligibleConfirmAdds ==
  [][(whitelist' # whitelist \/ whitelist_file' # whitelist_file) =>
       \E t \in Tasks :
         /\ pc[t] = "add_to_whitelist_locked"
         /\ pc'[t] = "retry"
         /\ CommandOf(msg[t]) = "Confirm"
         /\ msg[t].from \in Users
         /\ member[t] \in {"Member", "Administrator", "Owner"}
         /\ whitelist \subseteq whitelist'
         /\ whitelist' \subseteq whitelist \cup {msg[t].from}
         /\ \/ whitelist_file' = whitelist_file
            \/ /\ Len(whitelist_file') = Len(whitelist_file) + 1
               /\ SubSeq(whitelist_file', 1, Len(whitelist_file)) = whitelist_file
               /\ load_whitelist(<<whitelist_file'[Len(whitelist_file')]>>) = {msg[t].from}]_vars

\* a Confirm of a sender unknown on arrival has put the sender in the set and log
C3_Witness ==
  \E t \in Tasks :
    /\ ~ known[t]
    /\ text[t] \in Verified
    /\ msg[t].from \in whitelist
    /\ Records(Appended, msg[t].from) = 1

\* C4: whatever the interleaving of the Confirm handlers of one sender, the log
\* gains at most one record for that UserId.
C4_AtMostOneRecord == \A u \in Users : Records(Appended, u) <= 1

\* two Confirm handlers of one sender both passed the is_whitelisted check with
\* false and both went through add_to_whitelist
C4_Witness ==
  \E t1 \in Tasks : \E t2 \in Tasks \ {t1} :
    /\ msg[t1].from = msg[t2].from
    /\ text[t1] \in Verified
    /\ text[t2] \in Verified
    /\ Records(Appended, msg[t1].from) = 1

\* C5: with working persistence, add_to_whitelist of an absent user inserts it and
\* appends exactly one record; add_to_whitelist of a present user appends nothing
\* and returns Ok; the user is whitelisted after either call.
C5_AddTwice ==
  [][\A t \in Tasks :
       (pc[t] = "add_to_whitelist_locked" /\ pc'[t] # pc[t]) =>
         LET u == msg[t].from
         IN  /\ (u \notin whitelist /\ text'[t] # "whitelist error") =>
                  /\ whitelist' = whitelist \cup {u}
                  /\ whitelist_file' = Append(whitelist_file, <<Decimal(u)>> \o Username(u))
             /\ (u \in whitelist) =>
                  /\ whitelist' = whitelist
                  /\ whitelist_file' = whitelist_file
                  /\ text'[t] \in Verified
             /\ (text'[t] # "whitelist error") => u \in whitelist']_vars

\* one handler has finished after its add_to_whitelist and a second call for the
\* same user has returned Ok as a no-op
C5_Witness ==
  \E t1 \in Tasks : \E t2 \in Tasks \ {t1} :
    /\ msg[t1].from = msg[t2].from
    /\ pc[t1] = "done" /\ text[t1] \in Verified
    /\ pc[t2] = "retry" /\ attempts[t2] = 0 /\ text[t2] \in Verified
    /\ action_name[t2] = "send confirmation message"
    /\ Len(Appended) = 1

\* index of the first success in a history of attempts, 0 when there is none
FirstOk(h) ==
  IF \E i \in 1..Len(h) : h[i] THEN CHOOSE i \in 1..Len(h) : h[i] /\ \A j \in 1..(i - 1) : ~ h[j]
  ELSE 0

\* C6: retry_telegram_request invokes the operation min(k, 3) times, k the first
\* succeeding attempt; it returns that attempt's result and makes no attempt after
\* a success; when three attempts fail it returns the third attempt's error.
C6_RetryAttempts ==
  \A p \in Procs :
    /\ Len(outcomes[p]) = attempts[p]
    /\ attempts[p] <= 3
    /\ FirstOk(outcomes[p]) \in {0, Len(outcomes[p])}
    /\ pc[p] \in {"retry", "sleep"} => FirstOk(outcomes[p]) = 0
    /\ pc[p] = "returned" =>
         IF FirstOk(outcomes[p]) # 0
           THEN ret[p].ok /\ ret[p] \in Answers(p)
           ELSE ~ ret[p].ok /\ attempts[p] = 3 /\ ret[p].err = 3

\* one call has returned the success of its third attempt while another has
\* returned after three failures
C6_Witness ==
  \E p \in Procs : \E q \in Procs :
    /\ pc[p] = "returned" /\ outcomes[p] = <<FALSE, FALSE, TRUE>> /\ ret[p].ok
    /\ pc[q] = "returned" /\ outcomes[q] = <<FALSE, FALSE, FALSE>> /\ ~ ret[q].ok

\* C7: a deletion is registered only for the id of a message whose send succeeded,
\* every notice sent is registered before its handler finishes, and exactly once.
C7_ScheduleAfterSend ==
  /\ \A i \in DOMAIN registered :
       /\ registered[i] <= 1
       /\ registered[i] = 1 => i # NoId /\ \E s \in sent : s.id = i
  /\ \A t \in Tasks :
       /\ pc[Spawned(t)] # "unspawned" =>
            /\ registered[NoticeId(t)] = 1
            /\ msg[Spawned(t)].id = NoticeId(t)
            /\ \E s \in sent : s.id = NoticeId(t) /\ s.chat = msg[Spawned(t)].chat
       /\ (pc[t] = "done" /\ \E s \in sent : s.id = NoticeId(t)) =>
            /\ registered[NoticeId(t)] = 1
            /\ pc[Spawned(t)] # "unspawned"

\* a handler has finished with its notice sent and its deletion scheduled, while
\* another has finished after its send failed three times
C7_Witness ==
  \E t1 \in Tasks : \E t2 \in Tasks :
    /\ pc[t1] = "done" /\ result[t1] = "Ok" /\ NoticeScheduled(t1)
    /\ pc[t2] = "done" /\ result[t2] = "Err" /\ text[t2] # ""
    /\ registered[NoticeId(t2)] = 0

\* C8: a Confirm whose command could not be deleted still goes on to the
\* whitelist check and to a notice: every finished Confirm of a message that has a
\* sender has chosen its notice.
C8_DeleteIsBestEffort ==
  \A t \in Tasks :
    (pc[t] = "done" /\ CommandOf(msg[t]) = "Confirm" /\ msg[t].from # NoUser)
      => text[t] # ""

\* C9: a Confirm from a sender whitelisted on arrival chooses the "already
\* verified" notice and queries nothing; if the send did not fail the notice is
\* sent and scheduled.
C9_AlreadyVerified ==
  \A t \in Tasks :
    (CommandOf(msg[t]) = "Confirm" /\ known[t]) =>
      /\ action_name[t] # "get chat member"
      /\ member[t] = ""
      /\ pc[t] = "done" =>
           /\ text[t] = "already verified"
           /\ result[t] = "Ok" => NoticeScheduled(t)

\* C10: a Confirm of a sender not whitelisted at the check, whose query returned
\* member, administrator or owner, with no failed append and no failed call, ends
\* with the sender whitelisted, exactly one record of the sender in the log, and
\* the "verified" notice (the admin variant for administrator and owner) sent and
\* scheduled.
C10_EligibleConfirm ==
  \A t \in Tasks :
    (pc[t] = "done" /\ result[t] = "Ok" /\ member[t] # "" /\ WorkingPersistence) =>
      /\ msg[t].from \in whitelist
      /\ Records(whitelist_file, msg[t].from) = 1
      /\ text[t] = (IF member[t] = "Member" THEN "verified" ELSE "admin verified")
      /\ NoticeScheduled(t)

\* an owner and a plain member have both been confirmed
C10_Witness ==
  \E t1 \in Tasks : \E t2 \in Tasks :
    /\ pc[t1] = "done" /\ result[t1] = "Ok" /\ member[t1] = "Owner"
    /\ pc[t2] = "done" /\ result[t2] = "Ok" /\ member[t2] = "Member"
    /\ text[t1] = "admin verified" /\ text[t2] = "verified"
    /\ NoticeScheduled(t1) /\ NoticeScheduled(t2)
    /\ WorkingPersistence

\* the message task t handles, as a delete_message target
Incoming(t) == [chat |-> msg[t].chat, id |-> msg[t].id]

\* task t takes a step
Moves(t) == pc'[t] # pc[t]

\* nothing of a notice of handler t exists: no message, no scheduled deletion
NoNotice(t) ==
  /\ \A s \in sent : s.id # NoticeId(t)
  /\ registered[NoticeId(t)] = 0
  /\ pc[Spawned(t)] = "unspawned"

NotEstablished == {"must be a group member", "membership check failed"}

\* C11 as stated: a Confirm whose membership is not established always ends with
\* its notice sent and scheduled and with the handler returning without error.
C11_AlwaysNotice ==
  \A t \in Tasks :
    (pc[t] = "done" /\ text[t] \in NotEstablished) =>
      result[t] = "Ok" /\ NoticeScheduled(t)

\* C11 amended: after a query that returns an ineligible status the handler
\* issues the "must be a group member" send, after a query that failed three
\* times the "membership check failed" send; it is the only send of the handler;
\* when the send succeeds the notice is scheduled once and the handler returns
\* Ok, when the send fails three times nothing is scheduled and it returns Err.
C11_NoticeWhenSendSucceeds ==
  /\ [](\A t \in Tasks :
          (pc[t] = "done" /\ text[t] \in NotEstablished) =>
            IF result[t] = "Ok" THEN NoticeScheduled(t)
            ELSE result[t] = "Err" /\ NoNotice(t))
  /\ [][\A t \in Tasks :
          /\ (pc[t] = "returned" /\ action_name[t] = "get chat member" /\ Moves(t)
                /\ ~ (ret[t].ok /\ ret[t].status \in {"Member", "Administrator", "Owner"})) =>
               /\ text[t] = ""
               /\ text'[t] = (IF ret[t].ok THEN "must be a group member"
                              ELSE "membership check failed")
               /\ ~ ret[t].ok => outcomes[t] = <<FALSE, FALSE, FALSE>>
               /\ pc'[t] = "retry"
               /\ action_name'[t] = (IF ret[t].ok THEN "send not member message"
                                     ELSE "send membership check error")
               /\ UNCHANGED << whitelist, whitelist_file >>
          /\ (text[t] \in NotEstablished /\ Moves(t)) =>
               /\ text'[t] = text[t]
               /\ action_name'[t] \in {action_name[t], ""}]_vars

\* one Confirm has ended with the "membership check failed" notice scheduled
\* and another with the "must be a group member" notice scheduled
C11_Witness ==
  \E t1 \in Tasks : \E t2 \in Tasks :
    /\ pc[t1] = "done" /\ text[t1] = "membership check failed"
    /\ result[t1] = "Ok" /\ NoticeScheduled(t1)
    /\ pc[t2] = "done" /\ text[t2] = "must be a group member"
    /\ result[t2] = "Ok" /\ NoticeScheduled(t2)

\* C12: for a message that is no command, from a sender who is not whitelisted,
\* a delete of the message is attempted (1 to 3 attempts); whatever the delete
\* returned, a message with text gets the "please confirm" send, scheduled for
\* deletion once sent, and a message without text gets no notice; the patterns
\* are not consulted and the whitelist does not change.
C12_Unverified ==
  /\ [](\A t \in Tasks :
          /\ (pc[t] = "returned" /\ action_name[t] = "delete unwhitelisted message") =>
               /\ attempts[t] \in 1..3
               /\ Incoming(t) \in delete_calls
          /\ text[t] = "please confirm" =>
               /\ msg[t].has_text /\ CommandOf(msg[t]) = "None"
               /\ Incoming(t) \in delete_calls
               /\ (pc[t] = "done" /\ result[t] = "Ok") => NoticeScheduled(t)
               /\ (pc[t] = "done" /\ result[t] # "Ok") => NoNotice(t))
  /\ [][\A t \in Tasks :
          /\ (pc[t] = "is_whitelisted_locked" /\ Moves(t)
                /\ CommandOf(msg[t]) = "None" /\ msg[t].from \notin whitelist) =>
               /\ pc'[t] = "retry"
               /\ action_name'[t] = "delete unwhitelisted message"
          /\ (pc[t] = "returned" /\ action_name[t] = "delete unwhitelisted message"
                /\ Moves(t)) =>
               IF msg[t].has_text
                 THEN /\ pc'[t] = "retry"
                      /\ action_name'[t] = "send unwhitelisted warning"
                      /\ text'[t] = "please confirm"
                 ELSE /\ pc'[t] = "done"
                      /\ result'[t] = "Ok"
                      /\ text'[t] = ""
                      /\ UNCHANGED << sent, registered >>
          /\ pc'[t] = "check_message" => msg[t].from \in whitelist
          /\ (CommandOf(msg[t]) = "None" /\ pc[t] # "idle" /\ Moves(t)) =>
               UNCHANGED << whitelist, whitelist_file >>]_vars

\* a text message of an unverified sender has ended with its notice scheduled and
\* a message without text of an unverified sender has ended after its delete
C12_Witness ==
  \E t1 \in Tasks : \E t2 \in Tasks :
    /\ pc[t1] = "done" /\ text[t1] = "please confirm" /\ result[t1] = "Ok"
    /\ NoticeScheduled(t1) /\ msg[t1].from \notin whitelist
    /\ pc[t2] = "done" /\ ~ msg[t2].has_text /\ msg[t2].from \in Users
    /\ Incoming(t2) \in delete_calls /\ NoNotice(t2)

\* C13: for a message that is no command, from a sender whitelisted on arrival:
\* when it has text that matches the patterns it gets a delete call and the
\* "violates rules" send, scheduled once sent; when it has no text or the text
\* does not match, no delete, no send and no scheduled deletion ever happens.
C13_VerifiedSender ==
  \A t \in Tasks :
    (pc[t] \notin {"idle", "off"} /\ CommandOf(msg[t]) = "None" /\ known[t]) =>
      IF msg[t].has_text /\ Matches(forbidden_patterns, msg[t].text)
        THEN /\ text[t] \in {"", "violates rules"}
             /\ pc[t] = "done" =>
                  /\ text[t] = "violates rules"
                  /\ Incoming(t) \in delete_calls
                  /\ result[t] = "Ok" => NoticeScheduled(t)
        ELSE /\ pc[t] \in {"handle_group_message", "is_whitelisted",
                           "is_whitelisted_locked", "check_message", "done"}
             /\ text[t] = ""
             /\ Incoming(t) \notin delete_calls
             /\ NoNotice(t)
             /\ pc[t] = "done" => result[t] = "Ok"

\* a matching text of a verified sender has been answered with the scheduled
\* notice while a harmless text of a verified sender has ended untouched
C13_Witness ==
  \E t1 \in Tasks : \E t2 \in Tasks :
    /\ known[t1] /\ msg[t1].text = S_spam /\ pc[t1] = "done"
    /\ text[t1] = "violates rules" /\ result[t1] = "Ok" /\ NoticeScheduled(t1)
    /\ known[t2] /\ msg[t2].text = S_hello /\ pc[t2] = "done" /\ NoNotice(t2)

\* C14: a scheduled deletion makes no delete attempt for its message while the
\* delay is pending; once the delay is over it makes 1 to 3 delete attempts, all
\* for the chat and id of the notice it was scheduled for; its steps, a final
\* failure included, change nothing of the whitelist, of the lock, of the other
\* tasks or of the other scheduled deletions; and under fairness it ends.
C14_ScheduledDeletion ==
  /\ [](\A t \in Tasks :
          LET d == Spawned(t)
          IN  /\ pc[d] # "unspawned" =>
                   /\ registered[NoticeId(t)] = 1
                   /\ Incoming(d) = [chat |-> msg[t].chat, id |-> NoticeId(t)]
                   /\ lock # d
              /\ pc[d] = "sleep30" =>
                   /\ attempts[d] = 0
                   /\ Incoming(d) \notin delete_calls
              /\ pc[d] \in {"retry", "sleep", "returned"} =>
                   /\ action_name[d] = "delete delayed message"
                   /\ attempts[d] <= 3
              /\ pc[d] = "returned" =>
                   /\ attempts[d] \in 1..3
                   /\ ret[d].ok \/ outcomes[d] = <<FALSE, FALSE, FALSE>>
              /\ pc[d] \in {"returned", "done"} => Incoming(d) \in delete_calls)
  /\ [][\A d \in Deleters :
          (Moves(d) /\ pc[d] # "unspawned") =>
            /\ UNCHANGED << whitelist, whitelist_file, forbidden_patterns, lock,
                            msg, sent, registered, text, member, known >>
            /\ \A q \in Procs \ {d} :
                 /\ pc'[q] = pc[q] /\ result'[q] = result[q] /\ ret'[q] = ret[q]
                 /\ attempts'[q] = attempts[q] /\ action_name'[q] = action_name[q]
            /\ delete_calls' \subseteq delete_calls \cup {Incoming(d)}
            /\ pc[d] = "returned" => pc'[d] = "done"]_vars
  /\ \A d \in Deleters : (pc[d] = "sleep30") ~> (pc[d] = "done")

\* one scheduled deletion has ended after three failed attempts and another has
\* ended with its notice deleted
C14_Witness ==
  \E d1 \in Deleters : \E d2 \in Deleters :
    /\ pc[d1] = "done" /\ result[d1] = "Err" /\ Incoming(d1) \in delete_calls
    /\ pc[d2] = "done" /\ result[d2] = "Ok" /\ Incoming(d2) \in delete_calls

\* C15: no step removes a user from the set, and no step removes or rewrites a
\* line of the file; a sender for whom is_whitelisted returned true stays in
\* the set.
C15_Monotone ==
  /\ [][/\ whitelist \subseteq whitelist'
        /\ Len(whitelist_file) <= Len(whitelist_file')
        /\ SubSeq(whitelist_file', 1, Len(whitelist_file)) = whitelist_file]_vars
  /\ [](\A t \in Tasks :
          (known[t] \/ text[t] \in {"already verified", "start: already verified"}) =>
            msg[t].from \in whitelist)

\* a Confirm has added its sender to the set and to a file that was not empty,
\* after another handler had found its own sender whitelisted
C15_Witness ==
  \E t1 \in Tasks : \E t2 \in Tasks :
    /\ text[t1] \in {"already verified", "start: already verified"}
    /\ text[t2] \in {"verified", "admin verified"}
    /\ msg[t2].from # msg[t1].from
    /\ boot_len > 0 /\ Len(whitelist_file) = boot_len + 1
    /\ msg[t2].from \in whitelist

Suspended == {"retry", "sleep", "sleep30"}
\* inside is_whitelisted or add_to_whitelist, with the guard
Holding == {"is_whitelisted_locked", "add_to_whitelist_locked"}

\* p leaves is_whitelisted or add_to_whitelist and drops the guard
Releases(p) ==
  StartAfterCheck(p) \/ ConfirmAfterCheck(p) \/ GroupAfterCheck(p) \/ ConfirmAdd(p)

\* C17: the lock is held exactly by a task inside is_whitelisted or
\* add_to_whitelist, never by a task with a platform call, a backoff or a timer
\* pending; the holder can always release it at once, and a task that waits for
\* the lock (the only wait on another task) finds it free and can take it, or
\* finds it held by another task that can release it at once: no deadlock.
C17_LockOnlyInsideStore ==
  /\ lock \in {0} \cup Tasks
  /\ \A p \in Procs :
       /\ lock = p <=> pc[p] \in Holding
       /\ pc[p] \in Suspended => lock # p
       /\ pc[p] \in Holding => ENABLED Releases(p)
       /\ pc[p] \in {"is_whitelisted", "add_to_whitelist"} =>
            \/ lock = 0 /\ ENABLED (IsWhitelistedLock(p) \/ AddToWhitelistLock(p))
            \/ lock \in Tasks \ {p} /\ ENABLED Releases(lock)

\* one task holds the lock inside add_to_whitelist while the other is in a
\* backoff sleep
C17_Witness ==
  \E t1 \in Tasks : \E t2 \in Tasks :
    /\ lock = t1 /\ pc[t1] = "add_to_whitelist_locked"
    /\ pc[t2] = "sleep"

\* C18: every user who is in the set, or to whom a "verified" or "already
\* verified" notice was sent, is in the set that load_whitelist builds from the
\* file as it is now.
C18_ReloadKeepsVerified ==
  /\ \A u \in Users : is_whitelisted(u) => u \in load_whitelist(whitelist_file)
  /\ \A t \in Tasks :
       (\E m \in sent :
          /\ m.id = NoticeId(t)
          /\ m.text \in {"verified", "admin verified", "already verified",
                         "start: already verified"}) =>
         msg[t].from \in load_whitelist(whitelist_file)

\* C19: one retry_telegram_request makes at most 3 attempts, one handler makes
\* at most 9 attempts in all and a spawned deletion at most 3, and, the calls
\* returning and the sleeps ending, every handler that started returns.
C19_BoundedCalls ==
  /\ [](\A p \in Procs :
          /\ attempts[p] <= 3
          /\ Len(outcomes[p]) = attempts[p]
          /\ calls[p] <= (IF p \in Tasks THEN 9 ELSE 3)
          /\ (p \in Tasks /\ Handler(p) # "confirm") => calls[p] <= 6)
  /\ \A t \in Tasks : (pc[t] \notin {"idle", "off", "done"}) ~> (pc[t] = "done")
  /\ \A d \in Deleters : (pc[d] = "sleep30") ~> (pc[d] = "done" /\ calls[d] \in 1..3)

\* a Confirm has returned after 9 attempts: delete, query and notice, 3 each
C19_Witness ==
  \E t \in Tasks :
    /\ pc[t] = "done" /\ Handler(t) = "confirm" /\ calls[t] = 9
    /\ audit

(* --------------------------- command parsing --------------------------- *)

S_please == <<"p", "l", "e", "a", "s", "e">>
S_bot == <<"@", "b", "o", "t">>
S_START == <<"/", "S", "T", "A", "R", "T">>

\* texts around the two commands: leading blank, other case, longer word,
\* "@bot" suffix, separator, trailing word
ParseTexts ==
  { l \o h \o a \o g \o w :
      l \in {<<>>, <<" ">>},
      h \in {S_start, S_confirm, S_START, S_confirm \o <<"x">>, S_hello},
      a \in {<<>>, S_bot},
      g \in {<<>>, <<" ">>, <<"\n">>},
      w \in {<<>>, S_please, S_bot} }

\* main: the filter of the command branch applied to a text message
Dispatch(t) ==
  /\ pc[t] = "idle"
  /\ \E u \in Users : \E x \in ParseTexts :
       LET m == [from |-> u, chat |-> ChatOf(t), id |-> IncomingId(t),
                 has_text |-> TRUE, text |-> x]
       IN  /\ msg' = [msg EXCEPT ![t] = m]
           /\ known' = [known EXCEPT ![t] = m.from \in whitelist]
           /\ pc' = [pc EXCEPT ![t] =
                       IF CommandOf(m) = "Start" THEN "handle_start"
                       ELSE IF CommandOf(m) = "Confirm" THEN "handle_confirm"
                       ELSE "handle_group_message"]
  /\ UNCHANGED << store, lock, retry, member, text, result, platform >>

ParseNext == \E t \in Tasks : Dispatch(t)

ParseInit == Boot({1}, FALSE)

\* the classification of one text message, for every text of ParseTexts
ParseSpec == ParseInit /\ [][ParseNext]_vars

RECURSIVE UntilWhitespace(_)
UntilWhitespace(s) ==
  IF s = <<>> \/ Head(s) \in Whitespace THEN <<>>
  ELSE <<Head(s)>> \o UntilWhitespace(Tail(s))

\* the first whitespace-delimited token of a text
FirstWord(s) == UntilWhitespace(TrimStart(s))

\* the classification by the first token, its "@botname" suffix stripped
ByFirstToken(s) ==
  LET tok == BeforeAt(FirstWord(s))
  IN  IF tok = S_start THEN "handle_start"
      ELSE IF tok = S_confirm THEN "handle_confirm"
      ELSE "handle_group_message"

\* C20: a text goes to handle_start or handle_confirm exactly when its first
\* whitespace-delimited token, without its "@botname" suffix, is "/start" or
\* "/confirm", whatever follows the token.
C20_FirstTokenDecides ==
  \A t \in Tasks :
    (pc[t] \notin {"idle", "off"} /\ msg[t].has_text) =>
      pc[t] = ByFirstToken(msg[t].text)

\* C21: a message without sender, whichever handler gets it, only reaches the
\* entry of its handler and returns Ok from there: it never enters
\* retry_telegram_request (no send, no delete, no get_chat_member), never asks
\* for the lock, chooses no notice, schedules nothing, and its steps leave the
\* set and the file as they are.
C21_NoSenderNoOp ==
  /\ [](\A t \in Tasks :
          (pc[t] \notin {"idle", "off"} /\ msg[t].from = NoUser) =>
            /\ pc[t] \in {"handle_start", "handle_confirm", "handle_group_message", "done"}
            /\ pc[t] = "done" => result[t] = "Ok"
            /\ action_name[t] = "" /\ attempts[t] = 0 /\ outcomes[t] = <<>>
            /\ text[t] = "" /\ member[t] = ""
            /\ lock # t
            /\ Incoming(t) \notin delete_calls
            /\ NoNotice(t))
  /\ [][\A t \in Tasks :
          (pc[t] \notin {"idle", "off"} /\ msg[t].from = NoUser /\ Moves(t)) =>
            /\ pc'[t] = "done"
            /\ UNCHANGED << whitelist, whitelist_file, lock, sent, registered,
                            delete_calls >>]_vars

\* a Confirm without sender and a plain message without sender have both returned
C21_Witness ==
  \E t1 \in Tasks : \E t2 \in Tasks :
    /\ msg[t1].from = NoUser /\ Handler(t1) = "confirm"
    /\ pc[t1] = "done" /\ result[t1] = "Ok"
    /\ msg[t2].from = NoUser /\ Handler(t2) = "group"
    /\ pc[t2] = "done" /\ result[t2] = "Ok"

(* --------------------------- pattern matching -------------------------- *)

\* contents of the patterns file: absent or empty; the two patterns; the same
\* two in the other order, in capitals, with blanks and an empty line; several
\* patterns of each kind; a lone "*", which loads the empty contains pattern
PatternFiles ==
  { <<>>,
    PatternLines,
    << <<" ", "*", " ", "B", "U", "Y", " ", "N", "O", "W", " ">>, <<>>,
       <<"S", "P", "A", "M">> >>,
    << <<"s", "p", "a", "m">>, <<"b", "u">>, <<"*", "a", "b">>,
       <<"*", "b", "u", "y", " ", "n", "o", "w">> >>,
    << <<"*">> >> }

T_shout == <<" ", "p", "l", "s", " ", "B", "U", "Y", " ", "N", "O", "W", "\n">>

\* texts of verified senders
MatchTexts ==
  { <<>>, <<" ", " ">>, S_hello, S_spam, T_shout,
    <<"s", "p", "a", "m">>, <<"S", "P", "A", "M">>, <<"S", "p", "a", "m", "m", "y">>,
    <<"a", " ", "s", "p", "a", "m">>, <<"s", "p", "a">>,
    <<"b", "u", "y", " ", "n", "o", "w">>, <<"b", "u", "y", "n", "o", "w">>,
    <<"\t", "B", "u", "y", " ", "n", "o", "w", "\n">>,
    <<"B", "U">>, <<"n", "a", "b", "s">>, <<"x", "A", "B">> }

MatchInit == \E lines \in PatternFiles : BootWith({1}, FALSE, lines)

\* handle_group_message with the text of a verified sender, at the call of
\* state.check_message(text)
MatchDeliver(t) ==
  /\ pc[t] = "idle"
  /\ \E x \in MatchTexts :
       msg' = [msg EXCEPT ![t] = [from |-> 1, chat |-> ChatOf(t), id |-> IncomingId(t),
                                  has_text |-> TRUE, text |-> x]]
  /\ known' = [known EXCEPT ![t] = is_whitelisted(1)]
  /\ pc' = [pc EXCEPT ![t] = "check_message"]
  /\ UNCHANGED << store, lock, retry, member, text, result, platform >>

MatchNext == \E t \in Tasks : MatchDeliver(t) \/ GroupCheckMessage(t)

\* check_message applied to every text of MatchTexts for every file of PatternFiles
MatchSpec == MatchInit /\ [][MatchNext]_vars

\* the elements of a sequence
Range(q) == {q[i] : i \in 1..Len(q)}

\* the capital of a letter of the alphabet of the model
UpperChar(c) ==
  IF \E i \in 1..Len(Lower) : Lower[i] = c
    THEN Upper[CHOOSE i \in 1..Len(Lower) : Lower[i] = c]
    ELSE c

ToUppercase(s) == [i \in 1..Len(s) |-> UpperChar(s[i])]

\* every other letter of s in capitals
Alternate(s) == [i \in 1..Len(s) |-> IF i % 2 = 1 THEN UpperChar(s[i]) ELSE LowerChar(s[i])]

Reverse(q) == [i \in 1..Len(q) |-> q[Len(q) + 1 - i]]

Padding == {<<>>, <<" ">>, <<"\t", "\n">>}

\* the text in another letter case, with whitespace added in front and behind
Variants(x) ==
  { l \o c \o r :
      l \in Padding, r \in Padding,
      c \in {x, ToUppercase(x), ToLowercase(x), Alternate(x)} }

\* some starts_with pattern is a prefix, or some contains pattern a substring, of
\* the trimmed and lowercased text
PrefixOrSubstring(patterns, x) ==
  LET low == ToLowercase(Trim(x))
  IN  \/ \E p \in Range(patterns.starts_with) : StartsWith(low, p)
      \/ \E p \in Range(patterns.contains) : Contains(low, p)

\* C22: check_message finds a match exactly when some starts_with pattern is a
\* prefix or some contains pattern a substring of the trimmed, lowercased text;
\* matches gives the same answer for the text in any letter case and with any
\* whitespace added around it, and for the patterns in the opposite order; with
\* both lists empty no text matches.
C22_Matches ==
  \A t \in Tasks :
    (pc[t] \in {"retry", "done"} /\ msg[t].has_text) =>
      LET x == msg[t].text
          hit == pc[t] = "retry" /\ action_name[t] = "delete forbidden message"
      IN  /\ hit <=> PrefixOrSubstring(forbidden_patterns, x)
          /\ pc[t] = "done" => result[t] = "Ok"
          /\ \A v \in Variants(x) : Matches(forbidden_patterns, v) <=> hit
          /\ Matches([starts_with |-> Reverse(forbidden_patterns.starts_with),
                      contains |-> Reverse(forbidden_patterns.contains)], x) <=> hit
          /\ (forbidden_patterns.starts_with = <<>> /\ forbidden_patterns.contains = <<>>)
               => ~ hit

\* a text in capitals with whitespace around it has matched a contains pattern
\* that was loaded after a starts_with pattern which is no prefix of it
C22_Witness ==
  \E t \in Tasks :
    /\ pc[t] = "retry" /\ action_name[t] = "delete forbidden message"
    /\ msg[t].text = T_shout
    /\ Len(forbidden_patterns.starts_with) >= 1
    /\ Len(forbidden_patterns.contains) >= 2

====
